---- MODULE Spec2Model ----
(***************************************************************************)
(* Model of warp-real-ip (src/src/lib.rs): the IP network set, the chain   *)
(* resolver real_ip, the header extraction get_forwarded_for, the header   *)
(* value tokenizer CommaSeparatedIterator, the token normalizers           *)
(* maybe_quoted / maybe_bracketed and the typed list parser                *)
(* CommaSeparated::from_str.                                               *)
(*                                                                         *)
(* Strings are sequences of one-character strings.  Option<T> is a record  *)
(* with a tag: None, or Some(x).                                           *)
(***************************************************************************)
EXTENDS Integers, Sequences, FiniteSets, TLC

VARIABLES
    trusted_proxies,  \* IpNetworks.networks: the Vec<IpNetwork> of the trust set
    cfg_addrs,        \* the Vec<IpAddr> the set was built from (None: not built / built from networks)
    probe,            \* last contains() call: None, or Some([addr, answer])
    addr,             \* remote(): Option<SocketAddr>, reduced to its ip()
    forwarded_for,    \* the claimed addresses handed to the real_ip closure
    resolved,         \* the closure's result: Pending before the request is handled
    target,           \* CommaSeparatedIterator.target / the &str handed to from_str
    char_indices,     \* CommaSeparatedIterator.char_indices: number of characters consumed
    state,            \* CommaSeparatedIterator.state
    s,                \* CommaSeparatedIterator.s: start position of the last token found
    returned,         \* what the calls of next() returned so far, in order
    parsed,           \* result of CommaSeparated::<IpAddr>::from_str(target)
    norm,             \* last normalizer call on target: Pending, or [fn, out]
    headers,          \* the request's x-forwarded-for, x-real-ip and forwarded headers
    claimed           \* what get_forwarded_for() extracted from the request

resolver_vars == <<trusted_proxies, cfg_addrs, probe, addr, forwarded_for, resolved>>
iter_vars == <<target, char_indices, state, s, returned>>
hdr_vars == <<headers, claimed>>
parse_vars == <<parsed, norm>>
vars == <<resolver_vars, iter_vars, parse_vars, hdr_vars>>

None == [tag |-> "None"]
Some(x) == [tag |-> "Some", val |-> x]
Pending == [tag |-> "Pending"]

(***************************************************************************)
(* Bounds of the model.                                                    *)
(***************************************************************************)
MaxClaimed == 2
MaxTrusted == 2
MaxLen == 4        \* longest enumerated header value
MaxEndCalls == 2   \* calls of next() made at the end of the sequence

(***************************************************************************)
(* Addresses.  An IpAddr is a family and the address bits as a number; the *)
(* sample addresses have small numbers (0.0.0.0, 0.0.0.1, ::, ::1), the    *)
(* same numbers in both families.                                          *)
(***************************************************************************)
V4Bits == 32
V6Bits == 128

AddrVals == {0, 1}
V4(n) == [fam |-> "V4", bits |-> n]
V6(n) == [fam |-> "V6", bits |-> n]
IpAddrs == {V4(n) : n \in AddrVals} \cup {V6(n) : n \in AddrVals}

Width(fam) == IF fam = "V4" THEN V4Bits ELSE V6Bits

SeqsUpTo(S, n) == UNION {[1..k -> S] : k \in 0..n}

(***************************************************************************)
(* ipnetwork crate, as used by lines 19 and 26-27.                         *)
(***************************************************************************)
\* n >> k for the sample addresses, all below 2^8
Shr(n, k) == IF k >= 8 THEN 0 ELSE n \div (2 ^ k)

\* Ipv4Network::from(addr) / Ipv6Network::from(addr): the full-width prefix
Ipv4Network_from(a) == [fam |-> "V4", addr |-> a.bits, prefix |-> V4Bits]
Ipv6Network_from(a) == [fam |-> "V6", addr |-> a.bits, prefix |-> V6Bits]

\* IpNetwork::contains: families must match, then the masked bits are compared
IpNetwork_contains(network, ip) ==
    /\ network.fam = ip.fam
    /\ LET shift == Width(network.fam) - network.prefix
       IN  Shr(ip.bits, shift) = Shr(network.addr, shift)

\* CIDR networks a configuration may hand over directly (FromIterator<IpNetwork>)
CidrSamples ==
    {[fam |-> a.fam, addr |-> a.bits, prefix |-> p] :
        a \in IpAddrs, p \in {0}} \cup
    {[fam |-> a.fam, addr |-> a.bits, prefix |-> Width(a.fam) - 1] : a \in IpAddrs}

(***************************************************************************)
(* IpNetworks (lines 16-51)                                                *)
(***************************************************************************)
\* IpNetworks::contains: any network of the Vec contains the address
IpNetworks_contains(networks, a) ==
    \E i \in 1..Len(networks) : IpNetwork_contains(networks[i], a)

\* faulty variant of from_ipaddr_iter: every address taken as IPv4
from_ipaddr_iter_v4only(addrs) ==
    [i \in 1..Len(addrs) |-> Ipv4Network_from(addrs[i])]

\* IpNetworks::from_ipaddr_iter: one network per address, by family
from_ipaddr_iter(addrs) ==
    [i \in 1..Len(addrs) |->
        IF addrs[i].fam = "V4" THEN Ipv4Network_from(addrs[i])
                               ELSE Ipv6Network_from(addrs[i])]

\* From<Vec<IpAddr>> / From<&Vec<IpAddr>>
IpNetworks_from(addrs) == from_ipaddr_iter(addrs)

\* FromIterator<IpNetwork>: the networks as given
IpNetworks_from_iter(nets) == nets

(***************************************************************************)
(* real_ip (lines 73-92): the closure applied to remote() and              *)
(* get_forwarded_for().                                                    *)
(***************************************************************************)
\* for hop in hops.rev() { if !trusted_proxies.contains(&hop) { return hop; } }
RECURSIVE walk_rev(_, _, _)
walk_rev(trusted, hops, i) ==
    IF i = 0 THEN None
    ELSE IF ~IpNetworks_contains(trusted, hops[i]) THEN Some(hops[i])
    ELSE walk_rev(trusted, hops, i - 1)

\* faulty variant of the walk: first hop to last (hops without .rev())
RECURSIVE walk_fwd(_, _, _)
walk_fwd(trusted, hops, i) ==
    IF i > Len(hops) THEN None
    ELSE IF ~IpNetworks_contains(trusted, hops[i]) THEN Some(hops[i])
    ELSE walk_fwd(trusted, hops, i + 1)

\* faulty variant of real_ip: the chain is walked from the first claimed address
real_ip_no_rev(trusted, peer, ff) ==
    IF peer = None THEN None
    ELSE LET hops == ff \o <<peer.val>>
             hit  == walk_fwd(trusted, hops, 1)
         IN  IF hit # None THEN Some(hit.val)
             ELSE IF Len(ff) > 0 THEN Some(ff[1]) ELSE Some(peer.val)

\* faulty variant of real_ip: the fallback is forwarded_for.last()
real_ip_last(trusted, peer, ff) ==
    IF peer = None THEN None
    ELSE LET hops == ff \o <<peer.val>>
             hit  == walk_rev(trusted, hops, Len(hops))
         IN  IF hit # None THEN Some(hit.val)
             ELSE IF Len(ff) > 0 THEN Some(ff[Len(ff)]) ELSE Some(peer.val)

\* faulty variant of real_ip: the fallback is forwarded_for.first() without unwrap_or
real_ip_first_only(trusted, peer, ff) ==
    IF peer = None THEN None
    ELSE LET hops == ff \o <<peer.val>>
             hit  == walk_rev(trusted, hops, Len(hops))
         IN  IF hit # None THEN Some(hit.val)
             ELSE IF Len(ff) > 0 THEN Some(ff[1]) ELSE None

\* faulty variant of real_ip: the peer is not chained to the hops
real_ip_skip_peer(trusted, peer, ff) ==
    IF peer = None THEN None
    ELSE LET hit == walk_rev(trusted, ff, Len(ff))
         IN  IF hit # None THEN Some(hit.val)
             ELSE IF Len(ff) > 0 THEN Some(ff[1]) ELSE Some(peer.val)

\* addr.map(|addr| { ... forwarded_for.first().copied().unwrap_or(addr.ip()) })
real_ip(trusted, peer, ff) ==
    IF peer = None THEN None
    ELSE LET hops == ff \o <<peer.val>>
             hit  == walk_rev(trusted, hops, Len(hops))
         IN  IF hit # None THEN Some(hit.val)
             ELSE IF Len(ff) > 0 THEN Some(ff[1]) ELSE Some(peer.val)

(***************************************************************************)
(* CommaSeparatedIterator (lines 123-222).  Positions are 0-based offsets  *)
(* into target; a token is the span target[lo..hi].                        *)
(***************************************************************************)
Span(lo, hi) == [lo |-> lo, hi |-> hi]
\* &target[lo..hi]
Slice(x, lo, hi) == SubSeq(x, lo + 1, hi)

\* CommaSeparatedIterator::new
IterNew == [char_indices |-> 0, state |-> "Default", s |-> 0]

\* faulty variants of the match, each differing from step in one arm: a
\* comma in Default is skipped; a comma ends a quoted token; a backslash in
\* Quoted does not escape; the comma ending a postamble is returned as an
\* empty token; a tab in Default starts a token
step_comma_skipped(st, c, i, start) ==
    CASE st = "Default" ->
            IF c = "\"" THEN [emit |-> None, state |-> "Quoted", s |-> i]
            ELSE IF c \in {" ", "\t", ","} THEN [emit |-> None, state |-> "Default", s |-> start]
            ELSE [emit |-> None, state |-> "Token", s |-> i]
      [] st = "Quoted" ->
            IF c = "\"" THEN [emit |-> Some(Span(start, i + 1)),
                              state |-> "PostambleForQuoted", s |-> start]
            ELSE IF c = "\\" THEN [emit |-> None, state |-> "QuotedPair", s |-> start]
            ELSE [emit |-> None, state |-> "Quoted", s |-> start]
      [] st = "QuotedPair" -> [emit |-> None, state |-> "Quoted", s |-> start]
      [] st = "Token" ->
            IF c = "," THEN [emit |-> Some(Span(start, i)), state |-> "Default", s |-> start]
            ELSE [emit |-> None, state |-> "Token", s |-> start]
      [] st = "PostambleForQuoted" ->
            IF c = "," THEN [emit |-> None, state |-> "Default", s |-> start]
            ELSE [emit |-> None, state |-> "PostambleForQuoted", s |-> start]

step_comma_ends_quoted(st, c, i, start) ==
    CASE st = "Default" ->
            IF c = "\"" THEN [emit |-> None, state |-> "Quoted", s |-> i]
            ELSE IF c \in {" ", "\t"} THEN [emit |-> None, state |-> "Default", s |-> start]
            ELSE IF c = "," THEN [emit |-> Some(Span(i, i)), state |-> "Default", s |-> start]
            ELSE [emit |-> None, state |-> "Token", s |-> i]
      [] st = "Quoted" ->
            IF c = "\"" THEN [emit |-> Some(Span(start, i + 1)),
                              state |-> "PostambleForQuoted", s |-> start]
            ELSE IF c = "," THEN [emit |-> Some(Span(start, i)), state |-> "Default", s |-> start]
            ELSE IF c = "\\" THEN [emit |-> None, state |-> "QuotedPair", s |-> start]
            ELSE [emit |-> None, state |-> "Quoted", s |-> start]
      [] st = "QuotedPair" -> [emit |-> None, state |-> "Quoted", s |-> start]
      [] st = "Token" ->
            IF c = "," THEN [emit |-> Some(Span(start, i)), state |-> "Default", s |-> start]
            ELSE [emit |-> None, state |-> "Token", s |-> start]
      [] st = "PostambleForQuoted" ->
            IF c = "," THEN [emit |-> None, state |-> "Default", s |-> start]
            ELSE [emit |-> None, state |-> "PostambleForQuoted", s |-> start]

step_no_quoted_pair(st, c, i, start) ==
    CASE st = "Default" ->
            IF c = "\"" THEN [emit |-> None, state |-> "Quoted", s |-> i]
            ELSE IF c \in {" ", "\t"} THEN [emit |-> None, state |-> "Default", s |-> start]
            ELSE IF c = "," THEN [emit |-> Some(Span(i, i)), state |-> "Default", s |-> start]
            ELSE [emit |-> None, state |-> "Token", s |-> i]
      [] st \in {"Quoted", "QuotedPair"} ->
            IF c = "\"" THEN [emit |-> Some(Span(start, i + 1)),
                              state |-> "PostambleForQuoted", s |-> start]
            ELSE [emit |-> None, state |-> "Quoted", s |-> start]
      [] st = "Token" ->
            IF c = "," THEN [emit |-> Some(Span(start, i)), state |-> "Default", s |-> start]
            ELSE [emit |-> None, state |-> "Token", s |-> start]
      [] st = "PostambleForQuoted" ->
            IF c = "," THEN [emit |-> None, state |-> "Default", s |-> start]
            ELSE [emit |-> None, state |-> "PostambleForQuoted", s |-> start]

step_postamble_comma_emits(st, c, i, start) ==
    CASE st = "Default" ->
            IF c = "\"" THEN [emit |-> None, state |-> "Quoted", s |-> i]
            ELSE IF c \in {" ", "\t"} THEN [emit |-> None, state |-> "Default", s |-> start]
            ELSE IF c = "," THEN [emit |-> Some(Span(i, i)), state |-> "Default", s |-> start]
            ELSE [emit |-> None, state |-> "Token", s |-> i]
      [] st = "Quoted" ->
            IF c = "\"" THEN [emit |-> Some(Span(start, i + 1)),
                              state |-> "PostambleForQuoted", s |-> start]
            ELSE IF c = "\\" THEN [emit |-> None, state |-> "QuotedPair", s |-> start]
            ELSE [emit |-> None, state |-> "Quoted", s |-> start]
      [] st = "QuotedPair" -> [emit |-> None, state |-> "Quoted", s |-> start]
      [] st = "Token" ->
            IF c = "," THEN [emit |-> Some(Span(start, i)), state |-> "Default", s |-> start]
            ELSE [emit |-> None, state |-> "Token", s |-> start]
      [] st = "PostambleForQuoted" ->
            IF c = "," THEN [emit |-> Some(Span(i, i)), state |-> "Default", s |-> start]
            ELSE [emit |-> None, state |-> "PostambleForQuoted", s |-> start]

step_tab_starts_token(st, c, i, start) ==
    CASE st = "Default" ->
            IF c = "\"" THEN [emit |-> None, state |-> "Quoted", s |-> i]
            ELSE IF c = " " THEN [emit |-> None, state |-> "Default", s |-> start]
            ELSE IF c = "," THEN [emit |-> Some(Span(i, i)), state |-> "Default", s |-> start]
            ELSE [emit |-> None, state |-> "Token", s |-> i]
      [] st = "Quoted" ->
            IF c = "\"" THEN [emit |-> Some(Span(start, i + 1)),
                              state |-> "PostambleForQuoted", s |-> start]
            ELSE IF c = "\\" THEN [emit |-> None, state |-> "QuotedPair", s |-> start]
            ELSE [emit |-> None, state |-> "Quoted", s |-> start]
      [] st = "QuotedPair" -> [emit |-> None, state |-> "Quoted", s |-> start]
      [] st = "Token" ->
            IF c = "," THEN [emit |-> Some(Span(start, i)), state |-> "Default", s |-> start]
            ELSE [emit |-> None, state |-> "Token", s |-> start]
      [] st = "PostambleForQuoted" ->
            IF c = "," THEN [emit |-> None, state |-> "Default", s |-> start]
            ELSE [emit |-> None, state |-> "PostambleForQuoted", s |-> start]

\* the match on (self.state, c) of lines 159-197: the item to return, if any,
\* the next state and the token start
step(st, c, i, start) ==
    CASE st = "Default" ->
            IF c = "\"" THEN [emit |-> None, state |-> "Quoted", s |-> i]
            ELSE IF c \in {" ", "\t"} THEN [emit |-> None, state |-> "Default", s |-> start]
            ELSE IF c = "," THEN [emit |-> Some(Span(i, i)), state |-> "Default", s |-> start]
            ELSE [emit |-> None, state |-> "Token", s |-> i]
      [] st = "Quoted" ->
            IF c = "\"" THEN [emit |-> Some(Span(start, i + 1)),
                              state |-> "PostambleForQuoted", s |-> start]
            ELSE IF c = "\\" THEN [emit |-> None, state |-> "QuotedPair", s |-> start]
            ELSE [emit |-> None, state |-> "Quoted", s |-> start]
      [] st = "QuotedPair" -> [emit |-> None, state |-> "Quoted", s |-> start]
      [] st = "Token" ->
            IF c = "," THEN [emit |-> Some(Span(start, i)), state |-> "Default", s |-> start]
            ELSE [emit |-> None, state |-> "Token", s |-> start]
      [] st = "PostambleForQuoted" ->
            IF c = "," THEN [emit |-> None, state |-> "Default", s |-> start]
            ELSE [emit |-> None, state |-> "PostambleForQuoted", s |-> start]

\* faulty variant of at_end: the state is not reset to Default
at_end_no_reset(x, it) ==
    IF it.state \in {"Default", "PostambleForQuoted"}
    THEN [ret |-> None, it |-> it]
    ELSE [ret |-> Some(Span(it.s, Len(x))), it |-> it]

\* faulty variant of at_end: a pending quoted span is not returned
at_end_drops_quoted(x, it) ==
    IF it.state \in {"Default", "PostambleForQuoted", "Quoted", "QuotedPair"}
    THEN [ret |-> None, it |-> it]
    ELSE [ret |-> Some(Span(it.s, Len(x))), it |-> [it EXCEPT !.state = "Default"]]

\* faulty variant of at_end: a pending Token span is not returned
at_end_drops_token(x, it) ==
    IF it.state \in {"Quoted", "QuotedPair"}
    THEN [ret |-> Some(Span(it.s, Len(x))),
          it |-> [it EXCEPT !.state = "Default"]]
    ELSE [ret |-> None, it |-> it]

\* lines 209-220: the input is exhausted
at_end(x, it) ==
    IF it.state \in {"Default", "PostambleForQuoted"}
    THEN [ret |-> None, it |-> it]
    ELSE [ret |-> Some(Span(it.s, Len(x))),
          it |-> [it EXCEPT !.state = "Default"]]

\* CommaSeparatedIterator::next: loop over the characters until an item is
\* returned or the input is exhausted
RECURSIVE next(_, _)
next_from(x, it) ==
    IF it.char_indices >= Len(x) THEN at_end(x, it)
    ELSE LET i == it.char_indices
             r == step(it.state, x[i + 1], i, it.s)
             n == [char_indices |-> i + 1, state |-> r.state, s |-> r.s]
         IN  IF r.emit # None THEN [ret |-> r.emit, it |-> n]
             ELSE next(x, n)
\* next() on the iterator self over the string x; self is bound as a value,
\* so that each turn of the loop is evaluated once
next(x, self) == CHOOSE res \in {next_from(x, it) : it \in {self}} : TRUE

(***************************************************************************)
(* Specification of the tokenizer: an iterator over a header value is      *)
(* called until it has returned None MaxEndCalls times.                    *)
(***************************************************************************)
TokAlphabet == {"a", " ", "\t", ",", "\"", "\\"}

\* the inputs of test_comma_separated_iterator (lines 286-287)
TestInput1 ==
    <<"a", "b", "c", ",", "d", "e", "f", ",", " ", "g", "h", "i", ",", "\t",
      "j", "k", "l", " ", ",", " ", "m", "n", "o", ",", "\t", "p", "q", "r">>
TestInput2 ==
    <<"a", "b", "c", ",", "\"", "d", "e", "f", "\"", ",", " ", "\"", "g", "h", "i", "\"",
      ",", "\t", "\"", "j", "k", "l", "\"", " ", ",", " ", "\"", "m", "n", "o", "\"",
      ",", "\t", "p", "q", "r">>

\* a further input: a quoted token with an escaped quote and a comma inside,
\* a postamble, a token with white space around it, an empty token and an
\* unterminated quoted token ending in a backslash
TokSample ==
    <<"\"", "a", "\\", "\"", ",", "a", "\"", "a", " ", ",", " ", "a", " ", ",",
      ",", "\t", "\"", "a", "\\">>

TokInputs == SeqsUpTo(TokAlphabet, MaxLen) \cup {TestInput1, TestInput2, TokSample}

ResolverIdle ==
    /\ trusted_proxies = <<>>
    /\ cfg_addrs = None
    /\ probe = None
    /\ addr = None
    /\ forwarded_for = <<>>
    /\ resolved = Pending

HdrIdle ==
    /\ headers = [x_forwarded_for |-> None, x_real_ip |-> None, forwarded |-> None]
    /\ claimed = Pending

IterIdle ==
    /\ target = <<>>
    /\ char_indices = 0
    /\ state = "Default"
    /\ s = 0
    /\ returned = <<>>

EndCalls == Cardinality({k \in 1..Len(returned) : returned[k] = None})

InitTok ==
    /\ target \in TokInputs
    /\ char_indices = IterNew.char_indices
    /\ state = IterNew.state
    /\ s = IterNew.s
    /\ returned = <<>>
    /\ parsed = Pending
    /\ norm = Pending
    /\ ResolverIdle
    /\ HdrIdle

\* one call of next()
IterNext ==
    /\ EndCalls < MaxEndCalls
    /\ LET r == next(target, [char_indices |-> char_indices, state |-> state, s |-> s])
       IN  /\ char_indices' = r.it.char_indices
           /\ state' = r.it.state
           /\ s' = r.it.s
           /\ returned' = Append(returned, r.ret)
    /\ UNCHANGED <<target, parse_vars, resolver_vars, hdr_vars>>

NextTok == IterNext

SpecTok == InitTok /\ [][NextTok]_vars

\* the caller (collect) keeps calling next() until it returns None
SpecTokFair == SpecTok /\ WF_vars(IterNext)

(***************************************************************************)
(* Token normalizers (lines 224-258) and the typed list parser             *)
(* (lines 260-278).  A call either returns a value or panics.              *)
(***************************************************************************)
Ok(v) == [tag |-> "Ok", val |-> v]
Err == [tag |-> "Err"]
Returned(v) == [tag |-> "Returned", val |-> v]
Panic == [tag |-> "Panic"]

\* str::trim: white space removed at both ends
IsSpace(c) == c \in {" ", "\t"}
RECURSIVE TrimStart(_)
TrimStart(x) ==
    IF x # <<>> /\ IsSpace(x[1]) THEN TrimStart(Tail(x)) ELSE x
RECURSIVE TrimEnd(_)
TrimEnd(x) ==
    IF x # <<>> /\ IsSpace(x[Len(x)]) THEN TrimEnd(SubSeq(x, 1, Len(x) - 1)) ELSE x
Trim(x) == TrimEnd(TrimStart(x))

\* faulty variant of the loop: the character after a backslash is inspected
\* like any other
RECURSIVE unquote_loop_no_pair(_, _, _, _)
unquote_loop_no_pair(x, k, st, acc) ==
    IF k > Len(x) THEN acc
    ELSE IF x[k] = "\"" THEN acc
    ELSE IF x[k] = "\\" THEN unquote_loop_no_pair(x, k + 1, 1, acc)
    ELSE unquote_loop_no_pair(x, k + 1, 0, Append(acc, x[k]))

\* the for loop of maybe_quoted (lines 230-245) from character k on; st is
\* the local `state` (0: plain, 1: after a backslash), acc the String built
RECURSIVE unquote_loop(_, _, _, _)
unquote_loop(x, k, st, acc) ==
    IF k > Len(x) THEN acc
    ELSE IF st = 0
         THEN IF x[k] = "\"" THEN acc
              ELSE IF x[k] = "\\" THEN unquote_loop(x, k + 1, 1, acc)
              ELSE unquote_loop(x, k + 1, 0, Append(acc, x[k]))
         ELSE unquote_loop(x, k + 1, 0, Append(acc, x[k]))

\* the position at which the for loop of maybe_quoted stops: that of the
\* quote it breaks at, or Len(x) + 1 when the characters run out
RECURSIVE unquote_end(_, _, _)
unquote_end(x, k, st) ==
    IF k > Len(x) THEN k
    ELSE IF st = 0
         THEN IF x[k] = "\"" THEN k
              ELSE IF x[k] = "\\" THEN unquote_end(x, k + 1, 1)
              ELSE unquote_end(x, k + 1, 0)
         ELSE unquote_end(x, k + 1, 0)

\* maybe_quoted
maybe_quoted(x) ==
    IF x # <<>> /\ x[1] = "\"" THEN unquote_loop(x, 2, 0, <<>>) ELSE x

\* faulty variant of maybe_bracketed: one bracket is enough (|| for &&)
maybe_bracketed_either(x) ==
    IF x = <<>> THEN Panic
    ELSE IF x[1] = "[" \/ x[Len(x)] = "]"
         THEN Returned(SubSeq(x, 2, Len(x) - 1))
         ELSE Returned(x)

\* maybe_bracketed: x.as_bytes()[0] is out of bounds for the empty string
maybe_bracketed(x) ==
    IF x = <<>> THEN Panic
    ELSE IF x[1] = "[" /\ x[Len(x)] = "]"
         THEN Returned(SubSeq(x, 2, Len(x) - 1))
         ELSE Returned(x)

\* IpAddr::from_str on the literals of the model: "1" is an IPv4 address,
\* ":1" and "::" are IPv6 addresses, any other string is no address
IpAddr_from_str(x) ==
    IF x = <<"1">> THEN Ok(V4(1))
    ELSE IF x = <<":", "1">> THEN Ok(V6(1))
    ELSE IF x = <<":", ":">> THEN Ok(V6(0))
    ELSE Err

\* faulty variant of normalize: brackets are stripped before the quotes
normalize_bracket_first(tok) ==
    LET b == maybe_bracketed(Trim(tok))
    IN  IF b = Panic THEN Panic ELSE Returned(maybe_quoted(b.val))

\* line 274: maybe_bracketed(&maybe_quoted(x.trim()))
normalize(tok) == maybe_bracketed(maybe_quoted(Trim(tok)))

\* the closure of line 274 applied to one token
parse_token(tok) ==
    LET n == normalize(tok)
    IN  IF n = Panic THEN Panic ELSE IpAddr_from_str(n.val)

\* .map(...).collect::<Result<Vec<_>, _>>(): tokens are taken one at a time
\* and the first Err ends the iteration
RECURSIVE collect(_, _, _)
collect(x, it, acc) ==
    LET r == next(x, it)
    IN  IF r.ret = None THEN Ok(acc)
        ELSE LET v == parse_token(Slice(x, r.ret.val.lo, r.ret.val.hi))
             IN  IF v = Panic THEN Panic
                 ELSE IF v = Err THEN Err
                 ELSE collect(x, r.it, Append(acc, v.val))

\* CommaSeparated::<IpAddr>::from_str
from_str(x) == collect(x, IterNew, <<>>)

(***************************************************************************)
(* Specification of the typed list parser: from_str is applied to a header *)
(* value.                                                                  *)
(***************************************************************************)
ParseAlphabet == {"1", ":", ",", " ", "\"", "\\", "[", "]"}
ParseInputs == SeqsUpTo(ParseAlphabet, MaxLen)

InitParse ==
    /\ target \in ParseInputs
    /\ char_indices = 0
    /\ state = "Default"
    /\ s = 0
    /\ returned = <<>>
    /\ parsed = Pending
    /\ norm = Pending
    /\ ResolverIdle
    /\ HdrIdle

FromStr ==
    /\ parsed = Pending
    /\ parsed' = from_str(target)
    /\ UNCHANGED <<norm, iter_vars, resolver_vars, hdr_vars>>

NextParse == FromStr

SpecParse == InitParse /\ [][NextParse]_vars

(***************************************************************************)
(* Specification of the token normalizers: maybe_quoted, maybe_bracketed   *)
(* or the normalization of line 274 is applied to a token.                 *)
(***************************************************************************)
NormAlphabet == {"a", " ", "\"", "\\", "[", "]"}

\* the arguments of test_maybe_quoted and test_maybe_bracketed (lines 292-302)
TestQuoted1 == <<"a", "b", "c">>
TestQuoted2 == <<"\"", "a", "b", "c", "\"">>
TestQuoted3 == <<"\"", "a", "\\", "\"", "b", "c", "\"">>
TestBracketed2 == <<"[", "a", "b", "c", "]">>
TestBracketed3 == <<"[", "a", "b", "c">>
TestBracketed4 == <<"a", "b", "c", "]">>
\* further tokens: an escaped quote and text after the closing quote; a
\* quoted bracketed and a bracketed quoted literal, with white space around
NormSamples ==
    {<<"\"", "a", "\\", "\"", "b", "\"", "c">>,
     <<"\"", "[", "a", "]", "\"">>,
     <<"[", "\"", "a", "\"", "]">>,
     <<" ", "\"", "[", "a", "]", "\"", " ">>,
     <<" ", "[", "\"", "a", "\"", "]", " ">>}

NormInputs ==
    SeqsUpTo(NormAlphabet, MaxLen) \cup NormSamples \cup
    {TestQuoted1, TestQuoted2, TestQuoted3, TestBracketed2, TestBracketed3,
     TestBracketed4}

InitNorm ==
    /\ target \in NormInputs
    /\ char_indices = 0
    /\ state = "Default"
    /\ s = 0
    /\ returned = <<>>
    /\ parsed = Pending
    /\ norm = Pending
    /\ ResolverIdle
    /\ HdrIdle

MaybeQuoted ==
    /\ norm' = [fn |-> "maybe_quoted", out |-> Returned(maybe_quoted(target))]
    /\ UNCHANGED <<parsed, iter_vars, resolver_vars, hdr_vars>>

MaybeBracketed ==
    /\ norm' = [fn |-> "maybe_bracketed", out |-> maybe_bracketed(target)]
    /\ UNCHANGED <<parsed, iter_vars, resolver_vars, hdr_vars>>

Normalize ==
    /\ norm' = [fn |-> "normalize", out |-> normalize(target)]
    /\ UNCHANGED <<parsed, iter_vars, resolver_vars, hdr_vars>>

NextNorm == MaybeQuoted \/ MaybeBracketed \/ Normalize

SpecNorm == InitNorm /\ [][NextNorm]_vars

(***************************************************************************)
(* get_forwarded_for (lines 95-121).  warp::header::<T>(name) rejects when *)
(* the header is missing or T::from_str fails on its value; a.or(b) runs b *)
(* when a rejects.  The forwarded header is held as the sequence of items  *)
(* rfc7239::parse yields for it: "ip" (a forwarded element whose for= node *)
(* is an IP address), "other" (an element with another or no for= node) or *)
(* "err" (a parse error).                                                  *)
(***************************************************************************)
Reject == [tag |-> "Reject"]
Extract(v) == [tag |-> "Extract", val |-> v]

FwdIp(a) == [kind |-> "ip", ip |-> a]
FwdOther == [kind |-> "other"]
FwdErr == [kind |-> "err"]

\* lines 104-116: parse(&header).filter_map(...).collect()
RECURSIVE forwarded_ips(_)
forwarded_ips(items) ==
    IF items = <<>> THEN <<>>
    ELSE (IF items[1].kind = "ip" THEN <<items[1].ip>> ELSE <<>>)
             \o forwarded_ips(Tail(items))

\* lines 96-97: warp::header("x-forwarded-for") as CommaSeparated<IpAddr>
xff_filter(h) ==
    IF h.x_forwarded_for = None THEN Reject
    ELSE LET r == from_str(h.x_forwarded_for.val)
         IN  IF r = Panic THEN Panic
             ELSE IF r = Err THEN Reject
             ELSE Extract(r.val)

\* lines 98-101: warp::header("x-real-ip") as String, mapped to a Vec
x_real_ip_filter(h) ==
    IF h.x_real_ip = None THEN Reject
    ELSE LET n == maybe_bracketed(maybe_quoted(h.x_real_ip.val))
         IN  IF n = Panic THEN Panic
             ELSE LET r == IpAddr_from_str(n.val)
                  IN  IF r = Err THEN Extract(<<>>) ELSE Extract(<<r.val>>)

\* lines 103-117: warp::header("forwarded") as String, mapped to a Vec
forwarded_filter(h) ==
    IF h.forwarded = None THEN Reject
    ELSE Extract(forwarded_ips(h.forwarded.val))

\* a.or(b).unify()
or_unify(a, b) == IF a = Reject THEN b ELSE a

\* get_forwarded_for: the Vec extracted, or a panic
get_forwarded_for(h) ==
    LET r == or_unify(or_unify(or_unify(xff_filter(h), x_real_ip_filter(h)),
                               forwarded_filter(h)),
                      Extract(<<>>))
    IN  IF r = Panic THEN Panic ELSE Returned(r.val)

(***************************************************************************)
(* Specification of the header extraction: a request with some of the      *)
(* three headers passes through get_forwarded_for.                         *)
(***************************************************************************)
\* x-forwarded-for values: valid lists, an unparseable one, one with an
\* empty token
XffSamples ==
    {<<"1">>, <<"1", ",", ":", "1">>, <<"[", ":", ":", "]", ",", " ", "1">>,
     <<"1", ",", "]">>, <<",", "1">>}
\* x-real-ip values: valid ones, unparseable ones, and ones that normalize
\* to the empty string
XRealIpSamples ==
    {<<":", "1">>, <<"[", ":", ":", "]">>, <<"\"", "1", "\"">>,
     <<"]">>, <<"1", " ">>, <<>>, <<"\"", "\"">>}
ForwardedSamples ==
    {<<>>, <<FwdIp(V4(1))>>, <<FwdIp(V6(0)), FwdOther, FwdErr, FwdIp(V4(1))>>,
     <<FwdOther>>}

Opt(S) == {None} \cup {Some(x) : x \in S}

InitHdr ==
    /\ headers \in [x_forwarded_for : Opt(XffSamples),
                    x_real_ip : Opt(XRealIpSamples),
                    forwarded : Opt(ForwardedSamples)]
    /\ claimed = Pending
    /\ ResolverIdle
    /\ IterIdle
    /\ parsed = Pending
    /\ norm = Pending

GetForwardedFor ==
    /\ claimed = Pending
    /\ claimed' = get_forwarded_for(headers)
    /\ UNCHANGED <<headers, resolver_vars, iter_vars, parse_vars>>

NextHdr == GetForwardedFor

SpecHdr == InitHdr /\ [][NextHdr]_vars

(***************************************************************************)
(* Specification of the chain resolver: a filter built from a trust        *)
(* configuration handles one request.                                      *)
(***************************************************************************)
TrustConfigs ==
    {IpNetworks_from(l) : l \in SeqsUpTo(IpAddrs, MaxTrusted)} \cup
    {IpNetworks_from_iter(<<n>>) : n \in CidrSamples}

InitResolve ==
    /\ trusted_proxies \in TrustConfigs
    /\ cfg_addrs = None
    /\ probe = None
    /\ addr \in {None} \cup {Some(a) : a \in IpAddrs}
    /\ forwarded_for \in SeqsUpTo(IpAddrs, MaxClaimed)
    /\ resolved = Pending
    /\ IterIdle
    /\ parsed = Pending
    /\ norm = Pending
    /\ HdrIdle

\* the request passes through the filter
RealIp ==
    /\ resolved = Pending
    /\ resolved' = real_ip(trusted_proxies, addr, forwarded_for)
    /\ UNCHANGED <<trusted_proxies, cfg_addrs, probe, addr, forwarded_for>>
    /\ UNCHANGED <<iter_vars, parse_vars, hdr_vars>>

NextResolve == RealIp

SpecResolve == InitResolve /\ [][NextResolve]_vars

(***************************************************************************)
(* Specification of the IP network set: a set built from a list of         *)
(* addresses answers contains() calls.                                     *)
(***************************************************************************)
InitNet ==
    /\ \E l \in SeqsUpTo(IpAddrs, MaxTrusted) :
          /\ cfg_addrs = Some(l)
          /\ trusted_proxies = IpNetworks_from(l)
    /\ probe = None
    /\ addr = None
    /\ forwarded_for = <<>>
    /\ resolved = Pending
    /\ IterIdle
    /\ parsed = Pending
    /\ norm = Pending
    /\ HdrIdle

Contains ==
    /\ \E a \in IpAddrs :
          probe' = Some([addr |-> a, answer |-> IpNetworks_contains(trusted_proxies, a)])
    /\ UNCHANGED <<trusted_proxies, cfg_addrs, addr, forwarded_for, resolved>>
    /\ UNCHANGED <<iter_vars, parse_vars, hdr_vars>>

NextNet == Contains

SpecNet == InitNet /\ [][NextNet]_vars

(***************************************************************************)
(* Properties of the chain resolver                                        *)
(***************************************************************************)
Handled == resolved # Pending
Hops == forwarded_for \o <<addr.val>>
Untrusted(h) == ~IpNetworks_contains(trusted_proxies, h)
\* k is the untrusted hop nearest the server in the chain h
NearestUntrusted(h, k) ==
    /\ k \in 1..Len(h)
    /\ Untrusted(h[k])
    /\ \A j \in (k + 1)..Len(h) : ~Untrusted(h[j])

\* C1: with a peer and at least one untrusted hop in the chain (claimed
\* addresses in order, then the peer), the result is the untrusted hop with
\* the largest index, and every hop after it is trusted.
C1_NearestUntrustedHop ==
    (Handled /\ addr # None /\ \E i \in 1..Len(Hops) : Untrusted(Hops[i])) =>
        \E k \in 1..Len(Hops) :
            /\ NearestUntrusted(Hops, k)
            /\ \A i \in 1..Len(Hops) : Untrusted(Hops[i]) => i <= k
            /\ resolved = Some(Hops[k])

\* C1 witness: a trusted peer, the result is a claimed hop, and an earlier
\* claimed hop with another address is untrusted as well.
C1_Witness ==
    /\ Handled /\ addr # None
    /\ \E k \in 1..Len(forwarded_for) :
          /\ NearestUntrusted(Hops, k)
          /\ resolved = Some(Hops[k])
          /\ \E j \in 1..(k - 1) : Untrusted(Hops[j]) /\ Hops[j] # Hops[k]

\* C2: when the peer and every claimed address are trusted, the result is the
\* first claimed address if there is one, and the peer otherwise.
C2_AllTrustedFallback ==
    (Handled /\ addr # None /\ \A i \in 1..Len(Hops) : ~Untrusted(Hops[i])) =>
        resolved = IF forwarded_for # <<>> THEN Some(forwarded_for[1]) ELSE addr

\* C2 witness: two distinct trusted claimed addresses, both differing from the
\* trusted peer; the first one is the result.
C2_Witness ==
    /\ Handled /\ addr # None
    /\ \A i \in 1..Len(Hops) : ~Untrusted(Hops[i])
    /\ Len(forwarded_for) = 2
    /\ forwarded_for[1] # forwarded_for[2]
    /\ forwarded_for[1] # addr.val
    /\ resolved = Some(forwarded_for[1])

\* the chains of claimed lists f and g (same peer) agree from the untrusted
\* hop of f's chain nearest the server onward
AgreeFromNearestUntrusted(f, g) ==
    LET hf == f \o <<addr.val>>
        hg == g \o <<addr.val>>
    IN  \E k \in 1..Len(hf) :
            /\ NearestUntrusted(hf, k)
            /\ Len(hg) >= Len(hf) - k + 1
            /\ \A j \in 0..(Len(hf) - k) : hg[Len(hg) - j] = hf[Len(hf) - j]

\* C3: for a fixed peer and trust set, a claimed list that agrees with the
\* request's from the untrusted hop nearest the server onward resolves to the
\* same address, whatever it claims before that hop; with a trusted peer and
\* claimed [C1, C2], C2 untrusted, the result is C2; with an untrusted peer
\* the result is the peer.
C3_SpoofingResistance ==
    (Handled /\ addr # None) =>
        /\ \A g \in SeqsUpTo(IpAddrs, MaxClaimed) :
              AgreeFromNearestUntrusted(forwarded_for, g) =>
                  real_ip(trusted_proxies, addr, g) = resolved
        /\ (Len(forwarded_for) = 2 /\ ~Untrusted(addr.val) /\ Untrusted(forwarded_for[2]))
              => resolved = Some(forwarded_for[2])
        /\ Untrusted(addr.val) => resolved = addr

\* C3 witness: trusted peer, claimed [C1, C2] with both untrusted and
\* different; the result is C2.
C3_Witness ==
    /\ Handled /\ addr # None
    /\ Len(forwarded_for) = 2
    /\ ~Untrusted(addr.val)
    /\ Untrusted(forwarded_for[2])
    /\ Untrusted(forwarded_for[1])
    /\ forwarded_for[1] # forwarded_for[2]
    /\ resolved = Some(forwarded_for[2])

\* C4: the result is absent if and only if there is no peer address.
C4_AbsentIffNoPeer ==
    Handled => (resolved = None <=> addr = None)

\* C4 witness: no peer, a non-empty claimed list of untrusted addresses, an
\* absent result.
C4_Witness ==
    /\ Handled /\ addr = None /\ resolved = None
    /\ Len(forwarded_for) = 2
    /\ Untrusted(forwarded_for[2])

\* C5: with an empty trust set and a peer, the result is the peer for every
\* claimed list.
C5_EmptyTrustSetGivesPeer ==
    (Handled /\ trusted_proxies = <<>> /\ addr # None) => resolved = addr

\* C5 witness: empty trust set, two claimed addresses other than the peer.
C5_Witness ==
    /\ Handled /\ trusted_proxies = <<>> /\ addr # None
    /\ Len(forwarded_for) = 2
    /\ \A i \in 1..2 : forwarded_for[i] # addr.val
    /\ resolved = addr

(***************************************************************************)
(* Properties of the IP network set                                        *)
(***************************************************************************)
Reverse(q) == [i \in 1..Len(q) |-> q[Len(q) + 1 - i]]

\* C9: a set built from a list of addresses answers contains(a) with TRUE
\* exactly when a (family and bits) is one of the listed addresses; an entry
\* of the other family never matches, and the order of the entries does not
\* change the answer.
C9_ExactMatch ==
    (probe # None /\ cfg_addrs # None) =>
        LET l == cfg_addrs.val
            a == probe.val.addr
        IN  /\ probe.val.answer <=> (\E i \in 1..Len(l) : l[i] = a)
            /\ \A i \in 1..Len(l) :
                  l[i].fam # a.fam => ~IpNetwork_contains(trusted_proxies[i], a)
            /\ probe.val.answer <=> IpNetworks_contains(IpNetworks_from(Reverse(l)), a)

\* C9 witness: the list holds the probed bits in the other family only, next
\* to another address of the probed family, and the answer is FALSE.
C9_Witness ==
    /\ probe # None /\ cfg_addrs # None
    /\ LET l == cfg_addrs.val
           a == probe.val.addr
       IN  /\ Len(l) = 2
           /\ \E i \in 1..2 : l[i].fam # a.fam /\ l[i].bits = a.bits
           /\ \E i \in 1..2 : l[i].fam = a.fam /\ l[i].bits # a.bits
           /\ probe.val.answer = FALSE

(***************************************************************************)
(* Properties of the tokenizer                                             *)
(***************************************************************************)
\* the iterator has returned None
Exhausted == returned # <<>> /\ returned[Len(returned)] = None
\* the tokens returned so far, as strings
RECURSIVE TokensOf(_, _)
TokensOf(x, rets) ==
    IF rets = <<>> THEN <<>>
    ELSE LET h == rets[1]
         IN  (IF h = None THEN <<>> ELSE <<Slice(x, h.val.lo, h.val.hi)>>)
                 \o TokensOf(x, Tail(rets))
Tokens == TokensOf(target, returned)

NoCommaOrQuote(x) == \A k \in 1..Len(x) : x[k] \notin {",", "\""}

\* C10 as stated: a string with no commas or quotes yields exactly one token,
\* the trimmed input.
C10_Original ==
    (Exhausted /\ NoCommaOrQuote(target)) => Tokens = <<Trim(target)>>

\* C10 amended: a string with no commas or quotes yields no token when it is
\* empty or holds only spaces and tabs, and otherwise exactly one token, the
\* input without its leading spaces and tabs (trailing white space is kept).
C10_OneTokenLeftTrimmed ==
    (Exhausted /\ NoCommaOrQuote(target)) =>
        Tokens = IF TrimStart(target) = <<>> THEN <<>> ELSE <<TrimStart(target)>>

\* C10 witness: an input with leading and trailing white space around other
\* characters has yielded its one token.
C10_Witness ==
    /\ Exhausted /\ NoCommaOrQuote(target)
    /\ Len(target) >= 3
    /\ IsSpace(target[1]) /\ IsSpace(target[Len(target)])
    /\ Len(Tokens) = 1
    /\ Tokens[1] # Trim(target)

(***************************************************************************)
(* Properties of the typed list parser                                     *)
(***************************************************************************)
\* every token of x, by calling next() until it returns None
RECURSIVE AllTokens(_, _)
AllTokens(x, it) ==
    LET r == next(x, it)
    IN  IF r.ret = None THEN <<>>
        ELSE <<Slice(x, r.ret.val.lo, r.ret.val.hi)>> \o AllTokens(x, r.it)

\* a token's value: the trimmed, unquoted, unbracketed token parsed as an
\* address, a token that normalizes to the empty string being a parse failure
TokenValue(tok) ==
    LET q == maybe_quoted(Trim(tok))
    IN  IF q = <<>> THEN Err ELSE IpAddr_from_str(maybe_bracketed(q).val)

\* C7: from_str returns Ok or Err for every header value and never panics; a
\* zero-length token is a parse failure.
C7_NeverPanics ==
    parsed # Panic

\* C8: from_str returns Ok exactly when every token parses, with one value per
\* token in token order, and Err as soon as one token fails to parse.
C8_AllOrNothing ==
    parsed # Pending =>
        LET toks == AllTokens(target, IterNew)
        IN  IF \A k \in 1..Len(toks) : TokenValue(toks[k]) # Err
            THEN parsed = Ok([k \in 1..Len(toks) |-> TokenValue(toks[k]).val])
            ELSE parsed = Err

(***************************************************************************)
(* Properties of the header extraction                                     *)
(***************************************************************************)
\* the header's value is an address list / an address after normalization
XffParseable(v) ==
    LET toks == AllTokens(v, IterNew)
    IN  \A k \in 1..Len(toks) : TokenValue(toks[k]) # Err
XffValue(v) ==
    LET toks == AllTokens(v, IterNew)
    IN  [k \in 1..Len(toks) |-> TokenValue(toks[k]).val]
XRealIpValue(v) ==
    LET q == maybe_quoted(v)
    IN  IF q = <<>> THEN Err ELSE IpAddr_from_str(maybe_bracketed(q).val)

\* the claimed list C6 describes: x-forwarded-for, else x-real-ip, else
\* forwarded, a header that is absent or unparseable passing to the next one
PrecedenceList(h) ==
    IF h.x_forwarded_for # None /\ XffParseable(h.x_forwarded_for.val)
        THEN XffValue(h.x_forwarded_for.val)
    ELSE IF h.x_real_ip # None /\ XRealIpValue(h.x_real_ip.val) # Err
        THEN <<XRealIpValue(h.x_real_ip.val).val>>
    ELSE IF h.forwarded # None
        THEN forwarded_ips(h.forwarded.val)
    ELSE <<>>

\* C6: whenever get_forwarded_for returns a list, it is the list of the first
\* header, in the order x-forwarded-for, x-real-ip, forwarded, that is present
\* and parseable, and the empty list if there is none; so an unparseable
\* x-real-ip next to a valid forwarded header yields the forwarded addresses.
C6_HeaderPrecedence ==
    (claimed # Pending /\ claimed # Panic) =>
        claimed = Returned(PrecedenceList(headers))

(***************************************************************************)
(* Properties of the token normalizers                                     *)
(***************************************************************************)
Called(f) == norm # Pending /\ norm.fn = f
Quote == "\""
Backslash == "\\"

\* in a token that starts with a quote, the character at position k follows
\* an escaping backslash
RECURSIVE Escaped(_, _)
Escaped(x, k) == k >= 3 /\ x[k - 1] = Backslash /\ ~Escaped(x, k - 1)
\* the position of the first unescaped quote after the opening one, or
\* Len(x) + 1
ClosingQuote(x) ==
    LET c == {k \in 2..Len(x) : x[k] = Quote /\ ~Escaped(x, k)}
    IN  IF c = {} THEN Len(x) + 1 ELSE CHOOSE k \in c : \A j \in c : k <= j
\* the characters at positions k..e-1 that are no escaping backslashes
RECURSIVE Unescape(_, _, _)
Unescape(x, k, e) ==
    IF k >= e THEN <<>>
    ELSE (IF x[k] = Backslash /\ ~Escaped(x, k) THEN <<>> ELSE <<x[k]>>)
             \o Unescape(x, k + 1, e)

\* C13: maybe_quoted returns a token that does not start with a double quote
\* unchanged; otherwise it returns the characters after the opening quote up
\* to the first unescaped double quote or the end, without the escaping
\* backslashes, each escaped character copied whatever it is, and discards
\* what follows the closing quote.
C13_Unquote ==
    Called("maybe_quoted") =>
        norm.out = Returned(IF target = <<>> \/ target[1] # Quote THEN target
                            ELSE Unescape(target, 2, ClosingQuote(target)))

\* C13 witness: a quoted token with an escaped quote inside and a character
\* after the closing quote has been unquoted.
C13_Witness ==
    /\ Called("maybe_quoted")
    /\ target = <<"\"", "a", "\\", "\"", "b", "\"", "c">>
    /\ norm.out = Returned(<<"a", "\"", "b">>)

\* C14: for a non-empty token maybe_bracketed never fails; it returns the
\* text between the first and the last character when the token starts with
\* '[' and ends with ']' (one layer only), and the token unchanged otherwise.
C14_Unbracket ==
    (Called("maybe_bracketed") /\ target # <<>>) =>
        /\ norm.out.tag = "Returned"
        /\ IF target[1] = "[" /\ target[Len(target)] = "]"
           THEN target = <<"[">> \o norm.out.val \o <<"]">>
           ELSE norm.out.val = target

\* C14 witness: a doubly bracketed token has lost its outer layer only.
C14_Witness ==
    /\ Called("maybe_bracketed")
    /\ target = <<"[", "[", "a", "]">>
    /\ norm.out = Returned(<<"[", "a">>)

NoQuoteOrBackslash(x) == \A k \in 1..Len(x) : x[k] \notin {Quote, Backslash}
Inner(x, n) == SubSeq(x, n + 1, Len(x) - n)

\* C18: a token is trimmed, then unquoted, then unbracketed: a quoted
\* bracketed literal normalizes to its bare inner text, a bracketed quoted
\* literal keeps its quote characters, and white space inside the quotes,
\* not being at the ends of the token, is kept.
C18_NormalizationOrder ==
    Called("normalize") =>
        LET t == Trim(target)
            n == Len(t)
        IN  /\ (n >= 4 /\ t[1] = Quote /\ t[n] = Quote /\ t[2] = "[" /\ t[n - 1] = "]"
                    /\ NoQuoteOrBackslash(Inner(t, 2)))
                => norm.out = Returned(Inner(t, 2))
            /\ (n >= 4 /\ t[1] = "[" /\ t[n] = "]" /\ t[2] = Quote /\ t[n - 1] = Quote)
                => norm.out = Returned(Inner(t, 1))
            /\ (n >= 3 /\ t[1] = Quote /\ t[n] = Quote /\ IsSpace(t[2])
                    /\ NoQuoteOrBackslash(Inner(t, 1)))
                => norm.out = Returned(Inner(t, 1))

\* C18 witness: a quoted bracketed literal with white space around it has
\* been normalized to its inner text.
C18_Witness ==
    /\ Called("normalize")
    /\ target = <<" ", "\"", "[", "a", "]", "\"", " ">>
    /\ norm.out = Returned(<<"a">>)

(***************************************************************************)
(* Further properties of the tokenizer                                     *)
(***************************************************************************)
\* the iterator's state and token start after the characters at offsets
\* lo..hi-1 have been read from state and start p (the first half of the
\* offsets, then the second half from where the first half ends)
RECURSIVE RunSeg(_, _, _, _)
RunSeg(x, p, lo, hi) ==
    IF lo >= hi THEN p
    ELSE IF hi = lo + 1
         THEN LET r == step(p.state, x[hi], lo, p.s)
              IN  [state |-> r.state, s |-> r.s]
         ELSE LET mid == (lo + hi) \div 2
              IN  CHOOSE q \in {RunSeg(x, m, mid, hi) : m \in {RunSeg(x, p, lo, mid)}} : TRUE
\* the iterator's state and token start after the first k characters
RunTo(x, k) == RunSeg(x, [state |-> IterNew.state, s |-> IterNew.s], 0, k)
\* the state in which the character at offset i is read
StateAt(i) == RunTo(target, i).state

\* the spans returned so far, in order and as a set
RECURSIVE SpansOf(_)
SpansOf(rets) ==
    IF rets = <<>> THEN <<>>
    ELSE (IF rets[1] = None THEN <<>> ELSE <<rets[1].val>>) \o SpansOf(Tail(rets))
TokSpans == SpansOf(returned)
RetSpans == {TokSpans[k] : k \in 1..Len(TokSpans)}

Offsets == 0..(Len(target) - 1)
CharAt(i) == target[i + 1]
NoQuote(x) == \A k \in 1..Len(x) : x[k] # Quote
\* only spaces and tabs lie between the character at offset i and the start
\* of the input or the previous comma
AfterStartOrComma(i) ==
    LET js == {j \in 0..(i - 1) : ~IsSpace(CharAt(j))}
    IN  js = {} \/ CharAt(CHOOSE j \in js : \A m \in js : m <= j) = ","

\* C11 as stated, on quote-free input: every leading comma, every trailing
\* comma and every comma that directly follows another comma yields an
\* empty token.
C11_Original ==
    (Exhausted /\ NoQuote(target)) =>
        \A i \in Offsets :
            (/\ CharAt(i) = ","
             /\ \/ \A j \in 0..(i - 1) : IsSpace(CharAt(j))
                \/ \A j \in (i + 1)..(Len(target) - 1) : IsSpace(CharAt(j))
                \/ (i > 0 /\ CharAt(i - 1) = ","))
            => Span(i, i) \in RetSpans

\* C11 amended: a comma yields a zero-length token at its offset exactly when
\* it is read in Default state, and the state is Default after it; on
\* quote-free input these are the commas separated only by spaces and tabs
\* from the start of the input or from the previous comma.
C11_CommaInDefault ==
    Exhausted =>
        \A i \in Offsets :
            CharAt(i) = "," =>
                /\ Span(i, i) \in RetSpans <=> StateAt(i) = "Default"
                /\ StateAt(i) = "Default" => StateAt(i + 1) = "Default"
                /\ NoQuote(target) =>
                      (Span(i, i) \in RetSpans <=> AfterStartOrComma(i))

\* C11 witness: a leading comma and the second of two adjacent commas have
\* yielded empty tokens, the comma ending the token "a" has not.
C11_Witness ==
    /\ Exhausted
    /\ target = <<",", "a", ",", ",">>
    /\ Tokens = << <<>>, <<"a">>, <<>> >>

\* the number of characters at which the match returns a token
EmitCount ==
    Cardinality({k \in 1..Len(target) :
        LET p == RunTo(target, k - 1)
        IN  step(p.state, target[k], k - 1, p.s).emit # None})

\* C12: when the input ends in Token, Quoted or QuotedPair state exactly one
\* more token is returned, from the recorded start to the end of the string;
\* when it ends in Default or PostambleForQuoted no more token is returned.
C12_EndOfInput ==
    Exhausted =>
        LET e == RunTo(target, Len(target))
        IN  IF e.state \in {"Token", "Quoted", "QuotedPair"}
            THEN /\ Len(TokSpans) = EmitCount + 1
                 /\ TokSpans[Len(TokSpans)] = Span(e.s, Len(target))
            ELSE Len(TokSpans) = EmitCount

\* C12 witness: the input ended after a backslash inside a quoted segment
\* that follows another token.
C12_Witness ==
    /\ Exhausted
    /\ StateAt(Len(target)) = "QuotedPair"
    /\ Len(TokSpans) = 2
    /\ EndCalls = 2

\* the text from offset i on
From(i) == SubSeq(target, i + 1, Len(target))

\* C15: a quote read in Default state opens a segment that ends at its first
\* unescaped closing quote: the token from the opening through the closing
\* quote is returned, no other token starts or ends inside the segment
\* (commas and escaped quotes in it end nothing), and QuotedPair is followed
\* by Quoted.
C15_QuotedSegment ==
    Exhausted =>
        /\ \A i \in Offsets :
              (CharAt(i) = Quote /\ StateAt(i) = "Default") =>
                  LET c == ClosingQuote(From(i))
                      e == IF i + c <= Len(target) THEN i + c ELSE Len(target)
                  IN  /\ Span(i, e) \in RetSpans
                      /\ \A r \in RetSpans : r = Span(i, e) \/ r.hi <= i \/ r.lo >= e
        /\ \A i \in Offsets : StateAt(i) = "QuotedPair" => StateAt(i + 1) = "Quoted"

\* C15 witness: the quoted token with an escaped quote and a comma inside
\* has been returned whole.
C15_Witness ==
    /\ Exhausted
    /\ target = TokSample
    /\ Tokens[1] = <<"\"", "a", "\\", "\"", ",", "a", "\"">>

\* C16: a character read in PostambleForQuoted state lies in no returned
\* token, and no empty token is returned at its offset (the comma that ends
\* the postamble only leads back to Default).
C16_Postamble ==
    Exhausted =>
        \A i \in Offsets :
            StateAt(i) = "PostambleForQuoted" =>
                /\ \A r \in RetSpans : r.lo > i \/ (r.hi <= i /\ r # Span(i, i))
                /\ CharAt(i) = "," => StateAt(i + 1) = "Default"

\* C16 witness: text and a comma after a closing quote were dropped and a
\* later token was returned.
C16_Witness ==
    /\ Exhausted
    /\ target = TokSample
    /\ StateAt(7) = "PostambleForQuoted" /\ StateAt(9) = "PostambleForQuoted"
    /\ TokSpans[1] = Span(0, 7) /\ TokSpans[2] = Span(11, 13)

\* the comma-delimited fields of a quote-free string
RECURSIVE Fields(_)
Fields(x) ==
    LET cs == {k \in 1..Len(x) : x[k] = ","}
    IN  IF cs = {} THEN <<x>>
        ELSE LET k == CHOOSE k \in cs : \A j \in cs : k <= j
             IN  <<SubSeq(x, 1, k - 1)>> \o Fields(SubSeq(x, k + 1, Len(x)))
NonEmpty(q) == q # <<>>

\* C17: on quote-free input the tokens that start in Token state (the
\* non-empty ones) are, in order, the comma-delimited fields holding more
\* than spaces and tabs, each without its leading spaces and tabs and with
\* its trailing white space; none starts with a space or tab or holds a comma.
C17_TokenWhitespace ==
    (Exhausted /\ NoQuote(target)) =>
        LET toks == SelectSeq(Tokens, NonEmpty)
            flds == SelectSeq([k \in 1..Len(Fields(target)) |->
                                  TrimStart(Fields(target)[k])], NonEmpty)
        IN  /\ toks = flds
            /\ \A k \in 1..Len(toks) :
                  /\ ~IsSpace(toks[k][1])
                  /\ \A j \in 1..Len(toks[k]) : toks[k][j] # ","
            /\ \A k \in 1..Len(TokSpans) :
                  TokSpans[k].lo < TokSpans[k].hi
                      <=> StateAt(TokSpans[k].lo + 1) = "Token"

\* C17 witness: the field "\tjkl " of the repository's test input has
\* yielded "jkl ".
C17_Witness ==
    /\ Exhausted
    /\ target = TestInput1
    /\ Tokens[4] = <<"j", "k", "l", " ">>

\* C19: unquote's scan of a returned token that begins with a double quote
\* stops at the token's last character, or runs to the end of the token when
\* the quote is unterminated, which only the token returned at the end of
\* the input is; a token that starts in Token state begins with no quote.
C19_TokenizerUnquoteAgree ==
    Exhausted =>
        \A r \in RetSpans :
            LET tok == Slice(target, r.lo, r.hi)
            IN  /\ (tok # <<>> /\ tok[1] = Quote) =>
                      LET e == unquote_end(tok, 2, 0)
                      IN  \/ e = Len(tok) /\ tok[e] = Quote /\ Len(tok) >= 2
                          \/ /\ e = Len(tok) + 1
                             /\ r.hi = Len(target)
                             /\ StateAt(Len(target)) \in {"Quoted", "QuotedPair"}
                /\ (tok # <<>> /\ StateAt(r.lo + 1) = "Token") => tok[1] # Quote

\* C19 witness: a terminated quoted token with an escaped quote inside and
\* an unterminated one have both been returned.
C19_Witness ==
    /\ Exhausted
    /\ target = TokSample
    /\ unquote_end(Tokens[1], 2, 0) = Len(Tokens[1])
    /\ unquote_end(Tokens[4], 2, 0) = Len(Tokens[4]) + 1

CommaCount == Cardinality({k \in 1..Len(target) : target[k] = ","})

\* what holds of the calls made so far: at most (commas + 1) tokens, their
\* spans in increasing order without overlap, and nothing but None after a
\* None
C20_Bounded ==
    /\ Len(TokSpans) <= CommaCount + 1
    /\ \A j, k \in 1..Len(TokSpans) :
          j < k => (TokSpans[j].hi <= TokSpans[k].lo /\ TokSpans[j].lo < TokSpans[k].lo)
    /\ \A j, k \in 1..Len(returned) :
          (j < k /\ returned[j] = None) => returned[k] = None

\* C20: on every input the iterator eventually returns None, having returned
\* at most (commas + 1) tokens with increasing, non-overlapping spans, and
\* after a None every later call returns None.
C20_TerminatesBounded == <>Exhausted /\ []C20_Bounded

\* C20 witness: two calls at the end of the sequence have both returned None
\* after as many tokens as there are commas plus one.
C20_Witness ==
    /\ EndCalls = 2
    /\ CommaCount >= 2
    /\ Len(TokSpans) = CommaCount + 1

====
